---- MODULE Spec2Model ----
(***************************************************************************)
(* rocket-session-store: the Store capability (src/src/lib.rs, Store),     *)
(* the in-memory store (src/src/memory.rs), the Session request guard with *)
(* its token regeneration (src/src/lib.rs, Session) and the response       *)
(* fairing that commits the cookie (SessionStoreFairing::on_response).     *)
(*                                                                         *)
(* Tokens are abstract identifiers 1..NumTokens.  new_id draws 24          *)
(* alphanumeric characters from OsRng; it is modelled as returning any     *)
(* token that no request has presented or been given so far (a collision   *)
(* in a keyspace of 62^24 is not modelled).                                *)
(***************************************************************************)
EXTENDS Integers, Sequences, FiniteSets, TLC

\* ---------------------------------------------------------------- bounds
NumTokens == 3
NumReqs == 2
MaxTime == 2

\* SessionStore.duration, in ticks of the clock
Duration == 1

\* The number of keys and the longest time-to-live passed to a Store that is
\* called directly, in ticks.
NumKeys == 2
MaxTTL == 2

\* The ticks of the clock in one second.
TicksPerSec == 2

\* The threads that call one MemoryStore at the same time.
NumThreads == 2
MaxAffix == 1
MaxIdLen == 2
Threads == 1..NumThreads

\* The identities of the frame objects: one per key and one per thread.
FrameIds == 1..(NumKeys + NumThreads)

\* The keys and the time-to-live values (in ticks) a caller passes.
Keys == 1..NumKeys
TTLs == 1..MaxTTL

Tokens == 1..NumTokens
Reqs == 1..NumReqs
Handles == {"h1", "h2"}
Values == {"v", "w"}

NoToken == 0
NoValue == "none"

\* The token and the value of the session established before the run.
InitToken == 1
InitValue == "v"

VARIABLES
    map,         \* MemoryStore.map: key -> MemoryStoreFrame (value, expiry)
    now,         \* Instant::now()
    pc,          \* per request: idle, handling, regen_remove, regen_set, done
    cookie,      \* per request: the session cookie it presents, or NoToken
    cache,       \* per request: the token memoized by request.local_cache
    new_token,   \* per request: the Arc<Mutex<Option<SessionID>>> of the cache
    handle,      \* per request and handle: Session.token, NoToken if not resolved
    regen,       \* per request: locals of a running regenerate_token
    ret,         \* what the last Session call to return has returned, and to whom
    response,    \* per request: the session cookies adjoined to its response
    lastOp,      \* per key: the call that last wrote or removed its entry:
                 \* "set" (Session::set), "regen" (the set of regenerate_token),
                 \* "remove", or "none"
    redis,       \* the keyspace of the redis server behind a RedisStore
    sret,        \* what the last call made on the Store itself has returned
    written,     \* per key: the last set, touch or remove made on the Store
                 \* itself, and whether a set or a remove came last
    th,          \* per thread: the MemoryStore call it is in, where it is in
                 \* it, the frame it has looked up and what it has returned
    fid,         \* the HashMap of a MemoryStore shared by threads: key -> the
                 \* Mutex<MemoryStoreFrame> stored under it (its identity)
    frames,      \* the MemoryStoreFrame objects that the HashMap or a thread
                 \* refers to, by identity
    queue,       \* the threads waiting for the RwLock of the HashMap, in the
                 \* order in which they asked for it
    builder,     \* SessionStore.cookie_builder, as the application set it
    sent,        \* per request: the Set-Cookie headers adjoined to the
                 \* response, each with its attributes
    held,        \* per request: what the store held under the token of the
                 \* latest regenerate_token call when that call started
    keyed        \* two RedisStores on one redis server: the prefix and postfix
                 \* of each, and the latest call of each with the key it used

\* The state of a MemoryStore whose calls are followed lock by lock.
lockVars == <<th, fid, frames, queue>>

\* The state of a store that is called directly, not through a Session.
directVars == <<redis, sret, written, th, fid, frames, queue>>

\* The cookie configuration, the cookies emitted, and what the calls of
\* regenerate_token found when they started.
cookieVars == <<builder, sent, held>>

\* The state of two RedisStores that share a server.
keyVars == <<keyed>>

\* The state of the requests.
sessionVars == <<pc, cookie, cache, new_token, handle, regen, ret, response,
                 lastOp, cookieVars, keyVars>>

vars == <<map, now, pc, cookie, cache, new_token, handle, regen, ret,
          response, lastOp, redis, sret, written, th, fid, frames,
          queue, builder, sent, held, keyed>>

\* ------------------------------------------------------------------ store

\* MemoryStoreFrame { value, expiry }
Frame(v, e) == [value |-> v, expiry |-> e]

\* Mutant: an entry never expires.
UnexpiredAlways(f, t) == TRUE

\* expiry.checked_duration_since(Instant::now()).is_some()
Unexpired(f, t) == f.expiry >= t

\* Store::get on MemoryStore
StoreGet(m, k, t) ==
    IF k \in DOMAIN m /\ Unexpired(m[k], t) THEN m[k].value ELSE NoValue

\* Store::set on MemoryStore
StoreSet(m, k, v, d, t) ==
    [x \in (DOMAIN m) \cup {k} |-> IF x = k THEN Frame(v, t + d) ELSE m[x]]

\* Mutant: touch leaves the expiry as it is.
StoreTouchKeepsExpiry(m, k, d, t) == m

\* Mutant: touch creates an entry under a key that has none.
StoreTouchCreates(m, k, d, t) ==
    [x \in (DOMAIN m) \cup {k} |->
        IF x = k THEN [value |-> IF k \in DOMAIN m THEN m[k].value ELSE "v",
                       expiry |-> t + d]
                 ELSE m[x]]

\* Store::touch on MemoryStore
StoreTouch(m, k, d, t) ==
    IF k \in DOMAIN m THEN [m EXCEPT ![k].expiry = t + d] ELSE m

\* Mutant: remove leaves the entry in the map.
StoreRemoveKeepsEntry(m, k) == m

\* Store::remove on MemoryStore
StoreRemove(m, k) == [x \in (DOMAIN m) \ {k} |-> m[x]]

\* ------------------------------------------------------------ token source

\* Tokens some request has presented, memoized or been given.
InUse ==
    {cookie[r] : r \in Reqs} \cup {cache[r] : r \in Reqs}
        \cup {new_token[r] : r \in Reqs} \cup {InitToken}

\* new_id(ID_LENGTH): the tokens it can return
NewId == Tokens \ InUse

\* ------------------------------------------------------------------- init

NoResult == [req |-> 0, op |-> "none", ok |-> TRUE, val |-> NoValue]
NoRegen == [h |-> "h1", session_opt |-> NoValue]
NoOp == "none"

EmptyMap == [x \in {} |-> Frame(InitValue, 0)]

\* No key in the redis keyspace, no call made on the Store itself yet.
EmptyRedis == [x \in {} |-> [payload |-> <<>>, expire_at |-> 0]]
NoCall == [op |-> "none", key |-> NoToken, ok |-> TRUE, val |-> NoValue]
NoWrite == [op |-> "none", at |-> 0, d |-> 0, v |-> NoValue, was |-> -1,
            since |-> "none"]

\* A thread that is in no call; a HashMap with no key; no frame object.
NoThread == [pc |-> "idle", op |-> "none", k |-> NoToken, v |-> NoValue,
             d |-> 0, f |-> 0, res |-> NoValue]
EmptyFid == [x \in {} |-> 0]
EmptyFrames == [x \in {} |-> Frame(InitValue, 0)]
EstablishedMap == [x \in {InitToken} |-> Frame(InitValue, Duration)]

\* Two RedisStores, each RedisStore::new(client) with no prefix and no postfix,
\* that have made no call yet.
Stores == {"A", "B"}
NoAffix == <<>>
NoKey == [op |-> "none", id |-> <<>>, key |-> <<>>]
Unkeyed == [cfg |-> [s \in Stores |-> [prefix |-> NoAffix, postfix |-> NoAffix]],
            last |-> [s \in Stores |-> NoKey]]

\* A cookie, or a CookieBuilder, by the attributes that matter here; max_age
\* is in ticks, NoMaxAge when the attribute is not set.
NoMaxAge == -1
Cookie(n, v, a) == [name |-> n, value |-> v, max_age |-> a]

\* CookieBuilder::new("", ""), the builder of the tests: no attribute set.
DefaultBuilder == Cookie("", NoToken, NoMaxAge)

\* The builders an application may configure: without Max-Age, with the
\* session's duration as Max-Age, or with another Max-Age.
Builders == {Cookie("", NoToken, a) : a \in {NoMaxAge, Duration, Duration + 1}}

\* SessionStore.name
CookieName == "token"

\* A cookie made as the store's duration would have it, which is not what
\* on_response does.
SessionCookieWithDuration(b, n, t) == Cookie(n, t, Duration)

\* on_response: the builder is cloned and finished, then the cookie's name and
\* value are overwritten; every other attribute stays as the builder has it.
SessionCookie(b, n, t) == [b EXCEPT !.name = n, !.value = t]

InitRest ==
    /\ now = 0
    /\ pc = [r \in Reqs |-> "idle"]
    /\ cookie = [r \in Reqs |-> NoToken]
    /\ cache = [r \in Reqs |-> NoToken]
    /\ new_token = [r \in Reqs |-> NoToken]
    /\ handle = [r \in Reqs |-> [h \in Handles |-> NoToken]]
    /\ regen = [r \in Reqs |-> NoRegen]
    /\ ret = NoResult
    /\ response = [r \in Reqs |-> <<>>]
    /\ redis = EmptyRedis
    /\ sret = NoCall
    /\ written = [k \in Keys |-> NoWrite]
    /\ th = [t \in Threads |-> NoThread]
    /\ fid = EmptyFid
    /\ frames = EmptyFrames
    /\ queue = <<>>
    /\ sent = [r \in Reqs |-> <<>>]
    /\ held = [r \in Reqs |-> NoValue]

\* The store is empty (MemoryStore::new) or holds a session that an earlier
\* request established under InitToken (a store that outlives the process).
Init ==
    /\ \/ map = EmptyMap /\ lastOp = [k \in Tokens |-> NoOp]
       \/ /\ map = EstablishedMap
          /\ lastOp = [k \in Tokens |->
                         IF k = InitToken THEN "set" ELSE NoOp]
    /\ InitRest
    /\ builder = DefaultBuilder
    /\ keyed = Unkeyed

\* --------------------------------------------------------------- requests

\* The tokens a client can present: the one of the established session, the
\* ones clients have presented before and the ones responses have carried (a
\* token that new_id returned and no response has carried yet is not guessed).
Known ==
    {InitToken} \cup {cookie[q] : q \in Reqs}
        \cup UNION {{response[q][i] : i \in 1..Len(response[q])} : q \in Reqs}

\* A request arrives, with or without the session cookie.  The cookie is
\* copied as it is, whether the store knows it or not (InitToken is unknown
\* to an empty store).
Arrive(r, c) ==
    /\ pc[r] = "idle"
    /\ c \in Known \cup {NoToken}
    /\ pc' = [pc EXCEPT ![r] = "handling"]
    /\ cookie' = [cookie EXCEPT ![r] = c]
    /\ UNCHANGED <<map, now, cache, new_token, handle, regen, ret, response, lastOp>>
    /\ UNCHANGED <<directVars, cookieVars, keyVars>>

\* The candidates for new_id() inside the local_cache closure: it runs only
\* when nothing is memoized yet and the cookie is missing.
FreshFor(r) ==
    IF cache[r] = NoToken /\ cookie[r] = NoToken THEN NewId ELSE {NoToken}

\* Mutant: the pending slot is filled with the presented cookie as well.
LocalCachePendingAlways(r, t) ==
    IF cache[r] /= NoToken
        THEN [token |-> cache[r], new_token |-> new_token[r]]
        ELSE IF cookie[r] = NoToken
            THEN [token |-> t, new_token |-> t]
            ELSE [token |-> cookie[r], new_token |-> cookie[r]]

\* Mutant: the closure runs on every resolution (nothing is memoized), so a
\* request without the cookie gets another token each time.
LocalCacheNotMemoized(r, t) ==
    IF cookie[r] = NoToken
        THEN IF cache[r] = NoToken
            THEN [token |-> t, new_token |-> t]
            ELSE [token |-> (cache[r] % NumTokens) + 1,
                  new_token |-> (cache[r] % NumTokens) + 1]
        ELSE [token |-> cookie[r], new_token |-> new_token[r]]

\* request.local_cache_async(..): the memoized (token, new_token) of the
\* request; the closure runs on the first resolution only.
LocalCache(r, t) ==
    IF cache[r] /= NoToken
        THEN [token |-> cache[r], new_token |-> new_token[r]]
        ELSE IF cookie[r] = NoToken
            THEN [token |-> t, new_token |-> t]
            ELSE [token |-> cookie[r], new_token |-> NoToken]

\* Session::from_request: a Session handle of the request, its token cloned
\* from the memoized resolution.
FromRequest(r, h) ==
    /\ pc[r] = "handling"
    /\ handle[r][h] = NoToken
    /\ h = "h2" => handle[r]["h1"] /= NoToken    \* handles named in the order taken
    /\ \E t \in FreshFor(r) :
        LET c == LocalCache(r, t) IN
        /\ cache' = [cache EXCEPT ![r] = c.token]
        /\ new_token' = [new_token EXCEPT ![r] = c.new_token]
        /\ handle' = [handle EXCEPT ![r][h] = c.token]
    /\ UNCHANGED <<map, now, pc, cookie, regen, ret, response, lastOp>>
    /\ UNCHANGED <<directVars, cookieVars, keyVars>>

Returned(r, o, succeeded, v) == [req |-> r, op |-> o, ok |-> succeeded, val |-> v]

\* Session::get; ok is whether the store call succeeds
SessionGet(r, h, ok) ==
    /\ pc[r] = "handling"
    /\ handle[r][h] /= NoToken
    /\ ret' = IF ok THEN Returned(r, "get", TRUE, StoreGet(map, handle[r][h], now))
                  ELSE Returned(r, "get", FALSE, NoValue)
    /\ UNCHANGED <<map, now, pc, cookie, cache, new_token, handle, regen, response, lastOp>>
    /\ UNCHANGED <<directVars, cookieVars, keyVars>>

\* Mutant: a set that fails is tried again, and the second try succeeds.
SessionSetRetries(r, h, v, ok) ==
    /\ pc[r] = "handling"
    /\ handle[r][h] /= NoToken
    /\ map' = StoreSet(map, handle[r][h], v, Duration, now)
    /\ lastOp' = [lastOp EXCEPT ![handle[r][h]] = "set"]
    /\ ret' = Returned(r, "set", TRUE, v)
    /\ UNCHANGED <<now, pc, cookie, cache, new_token, handle, regen, response>>
    /\ UNCHANGED <<directVars, cookieVars, keyVars>>

\* Session::set
SessionSet(r, h, v, ok) ==
    /\ pc[r] = "handling"
    /\ handle[r][h] /= NoToken
    /\ map' = IF ok THEN StoreSet(map, handle[r][h], v, Duration, now) ELSE map
    /\ lastOp' = IF ok THEN [lastOp EXCEPT ![handle[r][h]] = "set"]
                       ELSE lastOp
    /\ ret' = Returned(r, "set", ok, v)
    /\ UNCHANGED <<now, pc, cookie, cache, new_token, handle, regen, response>>
    /\ UNCHANGED <<directVars, cookieVars, keyVars>>

\* Session::touch
SessionTouch(r, h, ok) ==
    /\ pc[r] = "handling"
    /\ handle[r][h] /= NoToken
    /\ map' = IF ok THEN StoreTouch(map, handle[r][h], Duration, now) ELSE map
    /\ ret' = Returned(r, "touch", ok, NoValue)
    /\ UNCHANGED <<now, pc, cookie, cache, new_token, handle, regen, response, lastOp>>
    /\ UNCHANGED <<directVars, cookieVars, keyVars>>

\* Session::remove
SessionRemove(r, h, ok) ==
    /\ pc[r] = "handling"
    /\ handle[r][h] /= NoToken
    /\ map' = IF ok THEN StoreRemove(map, handle[r][h]) ELSE map
    /\ lastOp' = IF ok THEN [lastOp EXCEPT ![handle[r][h]] = "remove"]
                       ELSE lastOp
    /\ ret' = Returned(r, "remove", ok, NoValue)
    /\ UNCHANGED <<now, pc, cookie, cache, new_token, handle, regen, response>>
    /\ UNCHANGED <<directVars, cookieVars, keyVars>>

\* ----------------------------------------------------------- regeneration

\* Mutant: no early return when the pending slot is filled.
RegenerateTokenAgain(r, h, ok) ==
    /\ pc[r] = "handling"
    /\ handle[r][h] /= NoToken
    /\ IF ok
        THEN /\ regen' = [regen EXCEPT ![r] =
                    [h |-> h, session_opt |-> StoreGet(map, handle[r][h], now)]]
             /\ pc' = [pc EXCEPT ![r] = "regen_remove"]
             /\ UNCHANGED ret
        ELSE /\ ret' = Returned(r, "regenerate_token", FALSE, NoValue)
             /\ UNCHANGED <<pc, regen>>
    /\ UNCHANGED <<map, now, cookie, cache, new_token, handle, response, lastOp>>
    /\ UNCHANGED <<directVars, cookieVars, keyVars>>

\* Mutant: the pending slot is filled before the old entry is removed.
RegenerateTokenFillsSlotFirst(r, h, ok) ==
    /\ pc[r] = "handling"
    /\ handle[r][h] /= NoToken
    /\ IF new_token[r] /= NoToken
        THEN /\ ret' = Returned(r, "regenerate_token", TRUE, NoValue)
             /\ UNCHANGED <<pc, regen, new_token>>
        ELSE IF ok
            THEN /\ regen' = [regen EXCEPT ![r] =
                        [h |-> h, session_opt |-> StoreGet(map, handle[r][h], now)]]
                 /\ pc' = [pc EXCEPT ![r] = "regen_remove"]
                 /\ \E t \in NewId : new_token' = [new_token EXCEPT ![r] = t]
                 /\ UNCHANGED ret
            ELSE /\ ret' = Returned(r, "regenerate_token", FALSE, NoValue)
                 /\ UNCHANGED <<pc, regen, new_token>>
    /\ UNCHANGED <<map, now, cookie, cache, handle, response, lastOp>>
    /\ UNCHANGED <<directVars, cookieVars, keyVars>>

\* Session::regenerate_token up to its first store call: lock the pending
\* slot, return Ok at once if it is filled, else self.get().await?
RegenerateToken(r, h, ok) ==
    /\ pc[r] = "handling"
    /\ handle[r][h] /= NoToken
    /\ IF new_token[r] /= NoToken
        THEN /\ ret' = Returned(r, "regenerate_token", TRUE, NoValue)
             /\ UNCHANGED <<pc, regen>>
        ELSE IF ok
            THEN /\ regen' = [regen EXCEPT ![r] =
                        [h |-> h, session_opt |-> StoreGet(map, handle[r][h], now)]]
                 /\ pc' = [pc EXCEPT ![r] = "regen_remove"]
                 /\ UNCHANGED ret
            ELSE /\ ret' = Returned(r, "regenerate_token", FALSE, NoValue)
                 /\ UNCHANGED <<pc, regen>>
    /\ UNCHANGED <<map, now, cookie, cache, new_token, handle, response, lastOp>>
    /\ UNCHANGED <<directVars, cookieVars, keyVars>>

\* self.remove().await?; self.token = new_id(ID_LENGTH);
\* *new_token_opt = Some(self.token.clone()); and the return when no session
\* value was read
RegenRemove(r, ok) ==
    /\ pc[r] = "regen_remove"
    /\ IF ok
        THEN \E t \in NewId :
            /\ map' = StoreRemove(map, handle[r][regen[r].h])
            /\ lastOp' = [lastOp EXCEPT ![handle[r][regen[r].h]] =
                            "remove"]
            /\ handle' = [handle EXCEPT ![r][regen[r].h] = t]
            /\ new_token' = [new_token EXCEPT ![r] = t]
            /\ IF regen[r].session_opt = NoValue
                THEN /\ pc' = [pc EXCEPT ![r] = "handling"]
                     /\ ret' = Returned(r, "regenerate_token", TRUE, NoValue)
                     /\ regen' = [regen EXCEPT ![r] = NoRegen]
                ELSE /\ pc' = [pc EXCEPT ![r] = "regen_set"]
                     /\ UNCHANGED <<ret, regen>>
        ELSE /\ pc' = [pc EXCEPT ![r] = "handling"]
             /\ ret' = Returned(r, "regenerate_token", FALSE, NoValue)
             /\ regen' = [regen EXCEPT ![r] = NoRegen]
             /\ UNCHANGED <<map, lastOp, handle, new_token>>
    /\ UNCHANGED <<now, cookie, cache, response>>
    /\ UNCHANGED <<directVars, cookieVars, keyVars>>

\* Mutant: the value read is not written under the new token.
RegenSetDropsValue(r, ok) ==
    /\ pc[r] = "regen_set"
    /\ pc' = [pc EXCEPT ![r] = "handling"]
    /\ ret' = Returned(r, "regenerate_token", ok, NoValue)
    /\ regen' = [regen EXCEPT ![r] = NoRegen]
    /\ UNCHANGED <<map, lastOp, now, cookie, cache, new_token, handle, response>>
    /\ UNCHANGED <<directVars, cookieVars, keyVars>>

\* if let Some(session) = session_opt { self.set(session).await?; } Ok(())
RegenSet(r, ok) ==
    /\ pc[r] = "regen_set"
    /\ map' = IF ok THEN StoreSet(map, handle[r][regen[r].h], regen[r].session_opt,
                                  Duration, now)
                    ELSE map
    /\ lastOp' = IF ok THEN [lastOp EXCEPT ![handle[r][regen[r].h]] =
                                "regen"]
                       ELSE lastOp
    /\ pc' = [pc EXCEPT ![r] = "handling"]
    /\ ret' = Returned(r, "regenerate_token", ok, NoValue)
    /\ regen' = [regen EXCEPT ![r] = NoRegen]
    /\ UNCHANGED <<now, cookie, cache, new_token, handle, response>>
    /\ UNCHANGED <<directVars, cookieVars, keyVars>>

\* --------------------------------------------- regenerate_token, await by await

\* The call of regenerate_token and its get, followed one await at a time:
\* the call locks the pending slot and returns Ok when the slot is filled;
\* other requests may run before its self.get() reads the store.
RegenerateTokenCalled(r, h) ==
    /\ pc[r] = "handling"
    /\ handle[r][h] /= NoToken
    /\ held' = [held EXCEPT ![r] = StoreGet(map, handle[r][h], now)]
    /\ IF new_token[r] /= NoToken
        THEN /\ ret' = Returned(r, "regenerate_token", TRUE, NoValue)
             /\ UNCHANGED <<pc, regen>>
        ELSE /\ regen' = [regen EXCEPT ![r] = [h |-> h, session_opt |-> NoValue]]
             /\ pc' = [pc EXCEPT ![r] = "regen_get"]
             /\ UNCHANGED ret
    /\ UNCHANGED <<map, now, cookie, cache, new_token, handle, response, lastOp>>
    /\ UNCHANGED <<directVars, builder, sent, keyVars>>

\* Mutant: the get returns what the store held when the call started.
RegenGetReadsAtCall(r, ok) ==
    /\ pc[r] = "regen_get"
    /\ IF ok
        THEN /\ regen' = [regen EXCEPT ![r].session_opt = held[r]]
             /\ pc' = [pc EXCEPT ![r] = "regen_remove"]
             /\ UNCHANGED ret
        ELSE /\ ret' = Returned(r, "regenerate_token", FALSE, NoValue)
             /\ pc' = [pc EXCEPT ![r] = "handling"]
             /\ regen' = [regen EXCEPT ![r] = NoRegen]
    /\ UNCHANGED <<map, now, cookie, cache, new_token, handle, response, lastOp>>
    /\ UNCHANGED <<directVars, cookieVars, keyVars>>

\* let session_opt = self.get().await?;
RegenGet(r, ok) ==
    /\ pc[r] = "regen_get"
    /\ IF ok
        THEN /\ regen' = [regen EXCEPT ![r].session_opt =
                        StoreGet(map, handle[r][regen[r].h], now)]
             /\ pc' = [pc EXCEPT ![r] = "regen_remove"]
             /\ UNCHANGED ret
        ELSE /\ ret' = Returned(r, "regenerate_token", FALSE, NoValue)
             /\ pc' = [pc EXCEPT ![r] = "handling"]
             /\ regen' = [regen EXCEPT ![r] = NoRegen]
    /\ UNCHANGED <<map, now, cookie, cache, new_token, handle, response, lastOp>>
    /\ UNCHANGED <<directVars, cookieVars, keyVars>>

\* --------------------------------------------------------------- response

\* The handler returns an error of its own (Err(MyError::OtherError) of the
\* regenerate_with_error route): the responder answers 500 and the handler
\* makes no further Session call.
HandlerFails(r) ==
    /\ pc[r] = "handling"
    /\ pc' = [pc EXCEPT ![r] = "failed"]
    /\ ret' = Returned(r, "handler", FALSE, NoValue)
    /\ UNCHANGED <<map, now, cookie, cache, new_token, handle, regen, response, lastOp>>
    /\ UNCHANGED <<directVars, cookieVars, keyVars>>

\* Mutant: the cookie is adjoined only when the handler has not failed.
OnResponseOnlyOnSuccess(r) ==
    /\ pc[r] \in {"handling", "failed"}
    /\ \E t \in FreshFor(r) :
        LET c == LocalCache(r, t) IN
        /\ cache' = [cache EXCEPT ![r] = c.token]
        /\ new_token' = [new_token EXCEPT ![r] = c.new_token]
        /\ response' = [response EXCEPT ![r] =
                IF c.new_token /= NoToken /\ pc[r] = "handling"
                    THEN Append(@, c.new_token) ELSE @]
        /\ sent' = [sent EXCEPT ![r] =
                IF c.new_token /= NoToken /\ pc[r] = "handling"
                    THEN Append(@, SessionCookie(builder, CookieName,
                                                 c.new_token))
                    ELSE @]
    /\ pc' = [pc EXCEPT ![r] = "done"]
    /\ handle' = [handle EXCEPT ![r] = [h \in Handles |-> NoToken]]
    /\ UNCHANGED <<map, now, cookie, regen, ret, lastOp>>
    /\ UNCHANGED <<directVars, builder, held, keyVars>>


\* SessionStoreFairing::on_response: resolve the session of the request (the
\* memoized one if the handler resolved it) and adjoin the cookie when the
\* pending slot is filled.
OnResponse(r) ==
    /\ pc[r] \in {"handling", "failed"}
    /\ \E t \in FreshFor(r) :
        LET c == LocalCache(r, t) IN
        /\ cache' = [cache EXCEPT ![r] = c.token]
        /\ new_token' = [new_token EXCEPT ![r] = c.new_token]
        /\ response' = [response EXCEPT ![r] =
                IF c.new_token /= NoToken THEN Append(@, c.new_token) ELSE @]
        /\ sent' = [sent EXCEPT ![r] =
                IF c.new_token /= NoToken
                    THEN Append(@, SessionCookie(builder, CookieName,
                                                 c.new_token))
                    ELSE @]
    /\ pc' = [pc EXCEPT ![r] = "done"]
    /\ handle' = [handle EXCEPT ![r] = [h \in Handles |-> NoToken]]   \* guards dropped
    /\ UNCHANGED <<map, now, cookie, regen, ret, lastOp>>
    /\ UNCHANGED <<directVars, builder, held, keyVars>>

\* Time passes.
Tick ==
    /\ now < MaxTime
    /\ now' = now + 1
    /\ UNCHANGED <<map, pc, cookie, cache, new_token, handle, regen, ret,
                   response, lastOp>>
    /\ UNCHANGED <<directVars, cookieVars, keyVars>>

\* ------------------------------------------------ the Store called directly


Called(o, k, succeeded, v) == [op |-> o, key |-> k, ok |-> succeeded, val |-> v]

\* The record of a set, touch or remove of key k made now: the expiry the
\* entry had before the call (-1 if there was none) and whether a set or a
\* remove came last.
Wrote(o, k, d, v) ==
    [op |-> o, at |-> now, d |-> d, v |-> v,
     was |-> IF k \in DOMAIN map THEN map[k].expiry ELSE -1,
     since |-> IF o \in {"set", "remove"} THEN o ELSE written[k].since]

\* store.set(k, v, d) on a MemoryStore
MemorySet(k, v, d) ==
    /\ map' = StoreSet(map, k, v, d, now)
    /\ sret' = Called("set", k, TRUE, NoValue)
    /\ written' = [written EXCEPT ![k] = Wrote("set", k, d, v)]
    /\ UNCHANGED <<now, redis, sessionVars, lockVars>>

\* store.get(k) on a MemoryStore
MemoryGet(k) ==
    /\ sret' = Called("get", k, TRUE, StoreGet(map, k, now))
    /\ UNCHANGED <<map, now, redis, written, sessionVars, lockVars>>

\* store.touch(k, d) on a MemoryStore
MemoryTouch(k, d) ==
    /\ map' = StoreTouch(map, k, d, now)
    /\ sret' = Called("touch", k, TRUE, NoValue)
    /\ written' = [written EXCEPT ![k] =
            Wrote("touch", k, d, IF k \in DOMAIN map THEN map[k].value ELSE NoValue)]
    /\ UNCHANGED <<now, redis, sessionVars, lockVars>>

\* store.remove(k) on a MemoryStore
MemoryRemove(k) ==
    /\ map' = StoreRemove(map, k)
    /\ sret' = Called("remove", k, TRUE, NoValue)
    /\ written' = [written EXCEPT ![k] = Wrote("remove", k, 0, NoValue)]
    /\ UNCHANGED <<now, redis, sessionVars, lockVars>>

\* ------------------------------------------- MemoryStore, lock by lock

\* The threads that hold the RwLock of the map for reading (get and touch
\* hold it until they return) and for writing (set and remove).
Readers ==
    {t \in Threads : /\ th[t].op \in {"get", "touch"}
                     /\ th[t].pc \in {"have_map", "want_frame", "have_frame"}}
Writers ==
    {t \in Threads : th[t].op \in {"set", "remove"} /\ th[t].pc = "have_map"}

\* The threads that asked for the RwLock before t and still wait for it.
Ahead(t) ==
    {queue[i] : i \in {n \in 1..Len(queue) :
                        \A m \in 1..n : queue[m] /= t}}

\* self.map.read().await returns: no thread holds the write lock, and none
\* that asked for it before t waits for it (the RwLock serves its waiters
\* first in, first out).
CanRead(t) ==
    /\ Writers = {}
    /\ \A u \in Ahead(t) : th[u].op \in {"get", "touch"}

\* Mutant: the write lock is granted while readers hold the map.
CanWriteAmongReaders(t) == Writers = {}

\* self.map.write().await returns: no thread holds the lock, and t is the
\* first of those that wait for it.
CanWrite(t) == Writers = {} /\ Readers = {} /\ Ahead(t) = {}

\* Mutant: the Mutex of a frame is granted only when no other thread holds
\* it or waits for it.
CanLockFrameUnlessWanted(t) ==
    \A u \in Threads \ {t} :
        ~(th[u].pc \in {"want_frame", "have_frame"} /\ th[u].f = th[t].f)

\* frame.lock().await returns: no other thread holds the Mutex of the frame
CanLockFrame(t) ==
    \A u \in Threads \ {t} : ~(th[u].pc = "have_frame" /\ th[u].f = th[t].f)

\* The frame objects still referred to by the HashMap fd or by a thread of thr.
Referenced(fd, thr) ==
    ({fd[k] : k \in DOMAIN fd} \cup {thr[t].f : t \in Threads}) \ {0}
Kept(fr, fd, thr) ==
    [i \in (DOMAIN fr) \cap Referenced(fd, thr) |-> fr[i]]

\* The contents of the HashMap: key -> frame.
View(fd, fr) == [k \in DOMAIN fd |-> fr[fd[k]]]

\* The thread is out of its call, with what the call returned.
Returns(t, v) == [NoThread EXCEPT !.res = v]

\* A thread calls get(k), set(k, v, d), touch(k, d) or remove(k).
Call(t, o, k, v, d) ==
    /\ th[t].pc = "idle"
    /\ th' = [th EXCEPT ![t] =
                [pc |-> "want_map", op |-> o, k |-> k,
                 v |-> IF o = "set" THEN v ELSE NoValue,
                 d |-> IF o \in {"set", "touch"} THEN d ELSE 0,
                 f |-> 0, res |-> NoValue]]
    /\ queue' = Append(queue, t)
    /\ UNCHANGED <<map, now, fid, frames, redis, sret, written, sessionVars>>

\* let lock = self.map.read().await / self.map.write().await
AcquireMap(t) ==
    /\ th[t].pc = "want_map"
    /\ IF th[t].op \in {"get", "touch"} THEN CanRead(t) ELSE CanWrite(t)
    /\ th' = [th EXCEPT ![t].pc = "have_map"]
    /\ queue' = SelectSeq(queue, LAMBDA u : u /= t)
    /\ UNCHANGED <<map, now, fid, frames, redis, sret, written, sessionVars>>

\* if let Some(frame) = lock.get(id) in get and touch; with no frame under
\* the key the call returns (Ok(None), Ok(())) and the read lock is dropped.
Lookup(t) ==
    /\ th[t].pc = "have_map"
    /\ th[t].op \in {"get", "touch"}
    /\ IF th[t].k \in DOMAIN fid
        THEN /\ th' = [th EXCEPT ![t].pc = "want_frame", ![t].f = fid[th[t].k]]
             /\ UNCHANGED map
        ELSE /\ th' = [th EXCEPT ![t] = Returns(t, NoValue)]
             /\ map' = IF th[t].op = "touch"
                            THEN StoreTouch(map, th[t].k, th[t].d, now)
                            ELSE map
    /\ UNCHANGED <<now, fid, frames, queue, redis, sret, written, sessionVars>>

\* frame.lock().await
LockFrame(t) ==
    /\ th[t].pc = "want_frame"
    /\ CanLockFrame(t)
    /\ th' = [th EXCEPT ![t].pc = "have_frame"]
    /\ UNCHANGED <<map, now, fid, frames, queue, redis, sret, written,
                   sessionVars>>

\* get, holding the frame: compare its expiry with Instant::now() and return
\* the clone of its value or None; both locks are dropped.
ReadFrame(t) ==
    /\ th[t].pc = "have_frame"
    /\ th[t].op = "get"
    /\ th' = [th EXCEPT ![t] =
                Returns(t, IF Unexpired(frames[th[t].f], now)
                              THEN frames[th[t].f].value ELSE NoValue)]
    /\ frames' = Kept(frames, fid, th')
    /\ UNCHANGED <<map, now, fid, queue, redis, sret, written, sessionVars>>

\* touch, holding the frame: frame_lock.expiry = Instant::now() + duration
WriteFrame(t) ==
    /\ th[t].pc = "have_frame"
    /\ th[t].op = "touch"
    /\ th' = [th EXCEPT ![t] = Returns(t, NoValue)]
    /\ frames' = Kept([frames EXCEPT ![th[t].f].expiry = now + th[t].d], fid, th')
    /\ map' = StoreTouch(map, th[t].k, th[t].d, now)
    /\ UNCHANGED <<now, fid, queue, redis, sret, written, sessionVars>>

\* set, holding the write lock: lock.insert(id.into(), Mutex::new(frame))
\* with expiry Instant::now() + expiry; the frame is a new object.
Insert(t) ==
    /\ th[t].pc = "have_map"
    /\ th[t].op = "set"
    /\ LET n == CHOOSE i \in FrameIds \ Referenced(fid, th) :
                    \A j \in FrameIds \ Referenced(fid, th) : i <= j
           fd == [x \in (DOMAIN fid) \cup {th[t].k} |->
                    IF x = th[t].k THEN n ELSE fid[x]]
           fr == [i \in (DOMAIN frames) \cup {n} |->
                    IF i = n THEN Frame(th[t].v, now + th[t].d) ELSE frames[i]]
       IN /\ th' = [th EXCEPT ![t] = Returns(t, NoValue)]
          /\ fid' = fd
          /\ frames' = Kept(fr, fd, th')
    /\ map' = StoreSet(map, th[t].k, th[t].v, th[t].d, now)
    /\ UNCHANGED <<now, queue, redis, sret, written, sessionVars>>

\* remove, holding the write lock: lock.remove(id)
Delete(t) ==
    /\ th[t].pc = "have_map"
    /\ th[t].op = "remove"
    /\ LET fd == [x \in (DOMAIN fid) \ {th[t].k} |-> fid[x]]
       IN /\ th' = [th EXCEPT ![t] = Returns(t, NoValue)]
          /\ fid' = fd
          /\ frames' = Kept(frames, fd, th')
    /\ map' = StoreRemove(map, th[t].k)
    /\ UNCHANGED <<now, queue, redis, sret, written, sessionVars>>

\* ------------------------------------------------------------ RedisStore

\* Duration::as_secs: whole seconds, the fraction dropped
as_secs(d) == d \div TicksPerSec

\* A token as the string passed to the store.
TokenStr(k) == <<ToString(k)>>

\* RedisStore::to_key: prefix, id and postfix concatenated (an option that is
\* None adds nothing)
to_key(prefix, postfix, id) == prefix \o id \o postfix

\* The store of the tests: RedisStore::new(client).prefix("user:")
Prefix == <<"user:">>
Postfix == <<>>
RedisKey(k) == to_key(Prefix, Postfix, TokenStr(k))

\* serde_json::to_string of a String value: the text in double quotes
to_string(v) == <<"\"", v, "\"">>

\* serde_json::from_slice::<String>: the text between the quotes, or an error
DeserializeError == "error"
from_slice(bytes) ==
    IF Len(bytes) = 3 /\ bytes[1] = "\"" /\ bytes[3] = "\""
        THEN bytes[2] ELSE DeserializeError

\* A payload that is not the JSON of a value.
Junk == <<"{">>

\* The redis server: a key is there until its expiry time has passed.
KeyExists(rs, key, t) == key \in DOMAIN rs /\ rs[key].expire_at >= t

\* GET key: Nil or Data(bytes)
CmdGet(rs, key, t) ==
    IF KeyExists(rs, key, t) THEN [kind |-> "data", bytes |-> rs[key].payload]
                             ELSE [kind |-> "nil", bytes |-> <<>>]

\* SET key payload EX secs: an error reply when secs is not positive
CmdSetEx(rs, key, payload, secs, t) ==
    IF secs <= 0
        THEN [reply |-> "error", rs |-> rs]
        ELSE [reply |-> "ok",
              rs |-> [x \in (DOMAIN rs) \cup {key} |->
                        IF x = key
                            THEN [payload |-> payload,
                                  expire_at |-> t + secs * TicksPerSec]
                            ELSE rs[x]]]

\* EXPIRE key secs: nothing for a missing key; the key is deleted when secs
\* is not positive
CmdExpire(rs, key, secs, t) ==
    IF ~KeyExists(rs, key, t)
        THEN rs
        ELSE IF secs <= 0
            THEN [x \in (DOMAIN rs) \ {key} |-> rs[x]]
            ELSE [rs EXCEPT ![key].expire_at = t + secs * TicksPerSec]

\* DEL key
CmdDel(rs, key) == [x \in (DOMAIN rs) \ {key} |-> rs[x]]

\* What has gone wrong in a call that did not return.
Panic == "panic"

\* The record of a set, touch or remove made now on the RedisStore.
RedisWrote(o, k, d, v) ==
    [op |-> o, at |-> now, d |-> d, v |-> v, was |-> -1, since |-> "none"]

\* RedisStore::get; ok is whether the connection and the command succeed
RedisGet(k, ok) ==
    /\ LET val == CmdGet(redis, RedisKey(k), now) IN
        sret' = IF ~ok THEN Called("get", k, FALSE, NoValue)
                ELSE IF val.kind = "nil" THEN Called("get", k, TRUE, NoValue)
                ELSE IF from_slice(val.bytes) = DeserializeError
                    THEN Called("get", k, FALSE, Panic)    \* expect(..) panics
                    ELSE Called("get", k, TRUE, from_slice(val.bytes))
    /\ UNCHANGED <<map, now, redis, written, sessionVars, lockVars>>

\* RedisStore::set
RedisSet(k, v, d, ok) ==
    /\ LET out == CmdSetEx(redis, RedisKey(k), to_string(v), as_secs(d), now) IN
        IF ok
            THEN /\ redis' = out.rs
                 /\ sret' = Called("set", k, out.reply = "ok", NoValue)
                 /\ written' = [written EXCEPT ![k] = RedisWrote("set", k, d, v)]
            ELSE /\ sret' = Called("set", k, FALSE, NoValue)
                 /\ UNCHANGED <<redis, written>>
    /\ UNCHANGED <<map, now, sessionVars, lockVars>>

\* RedisStore::touch
RedisTouch(k, d, ok) ==
    /\ IF ok
        THEN /\ redis' = CmdExpire(redis, RedisKey(k), as_secs(d), now)
             /\ written' = [written EXCEPT ![k] = RedisWrote("touch", k, d, NoValue)]
        ELSE UNCHANGED <<redis, written>>
    /\ sret' = Called("touch", k, ok, NoValue)
    /\ UNCHANGED <<map, now, sessionVars, lockVars>>

\* RedisStore::remove
RedisRemove(k, ok) ==
    /\ IF ok
        THEN /\ redis' = CmdDel(redis, RedisKey(k))
             /\ written' = [written EXCEPT ![k] = RedisWrote("remove", k, 0, NoValue)]
        ELSE UNCHANGED <<redis, written>>
    /\ sret' = Called("remove", k, ok, NoValue)
    /\ UNCHANGED <<map, now, sessionVars, lockVars>>

\* Another client of the redis server stores, under a key of the store, a
\* payload that is not the JSON of a value.
ForeignWrite(k) ==
    /\ redis' = [x \in (DOMAIN redis) \cup {RedisKey(k)} |->
                    IF x = RedisKey(k)
                        THEN [payload |-> Junk, expire_at |-> now + TicksPerSec]
                        ELSE redis[x]]
    /\ UNCHANGED <<map, now, sret, written, sessionVars, lockVars>>

\* ------------------------------------------------------------------- next

\* The Session calls of a handler and the steps of regenerate_token, each
\* store call succeeding or failing with SessionError.
Handler ==
    \/ \E r \in Reqs, h \in Handles : FromRequest(r, h)
    \/ \E r \in Reqs, h \in Handles, ok \in BOOLEAN : SessionGet(r, h, ok)
    \/ \E r \in Reqs, h \in Handles, v \in Values, ok \in BOOLEAN : SessionSet(r, h, v, ok)
    \/ \E r \in Reqs, h \in Handles, ok \in BOOLEAN : SessionTouch(r, h, ok)
    \/ \E r \in Reqs, h \in Handles, ok \in BOOLEAN : SessionRemove(r, h, ok)
    \/ \E r \in Reqs, h \in Handles, ok \in BOOLEAN : RegenerateToken(r, h, ok)
    \/ \E r \in Reqs, ok \in BOOLEAN : RegenRemove(r, ok)
    \/ \E r \in Reqs, ok \in BOOLEAN : RegenSet(r, ok)
    \/ \E r \in Reqs : OnResponse(r)

Next ==
    \/ \E r \in Reqs, c \in Tokens \cup {NoToken} : Arrive(r, c)
    \/ Handler

\* Concurrent requests over a store whose calls may fail, within one tick of
\* the clock.
Spec == Init /\ [][Next]_vars

\* A request arrives when no other request is being handled.
ArriveAlone(r, c) ==
    /\ \A q \in Reqs \ {r} : pc[q] \in {"idle", "done"}
    /\ Arrive(r, c)

NextSeq ==
    \/ \E r \in Reqs, c \in Tokens \cup {NoToken} : ArriveAlone(r, c)
    \/ Handler
    \/ Tick

\* One request at a time (no concurrent request), the clock running.
SpecSeq == Init /\ [][NextSeq]_vars

InitRegen ==
    /\ map = EstablishedMap
    /\ lastOp = [k \in Tokens |->
                   IF k = InitToken THEN "set" ELSE NoOp]
    /\ InitRest
    /\ builder = DefaultBuilder
    /\ keyed = Unkeyed

NextRegen ==
    \/ \E r \in Reqs, c \in Tokens \cup {NoToken} : Arrive(r, c)
    \/ \E r \in Reqs, h \in Handles : FromRequest(r, h)
    \/ \E r \in Reqs, h \in Handles : RegenerateToken(r, h, TRUE)
    \/ \E r \in Reqs : RegenRemove(r, TRUE)
    \/ \E r \in Reqs : RegenSet(r, TRUE)
    \/ \E r \in Reqs : OnResponse(r)
    \/ Tick

\* Concurrent requests that only regenerate their token, over an established
\* session and a store whose calls all succeed, the clock running.
SpecRegen == InitRegen /\ [][NextRegen]_vars

NextCommit ==
    \/ \E r \in Reqs, c \in Tokens \cup {NoToken} : Arrive(r, c)
    \/ \E r \in Reqs, h \in Handles : FromRequest(r, h)
    \/ \E r \in Reqs, h \in Handles : SessionGet(r, h, TRUE)
    \/ \E r \in Reqs, h \in Handles : RegenerateToken(r, h, TRUE)
    \/ \E r \in Reqs : RegenRemove(r, TRUE)
    \/ \E r \in Reqs : RegenSet(r, TRUE)
    \/ \E r \in Reqs : HandlerFails(r)
    \/ \E r \in Reqs : OnResponse(r)
    \/ Tick

\* Concurrent requests whose handlers read and regenerate the session and
\* may then fail with an error of their own, over an established session and
\* a store whose calls all succeed, the clock running.
SpecCommit == InitRegen /\ [][NextCommit]_vars

NextOps ==
    \/ \E r \in Reqs, c \in Tokens \cup {NoToken} : Arrive(r, c)
    \/ \E r \in Reqs : FromRequest(r, "h1")
    \/ \E r \in Reqs, ok \in BOOLEAN : SessionGet(r, "h1", ok)
    \/ \E r \in Reqs, v \in Values, ok \in BOOLEAN : SessionSet(r, "h1", v, ok)
    \/ \E r \in Reqs, ok \in BOOLEAN : SessionTouch(r, "h1", ok)
    \/ \E r \in Reqs, ok \in BOOLEAN : SessionRemove(r, "h1", ok)
    \/ \E r \in Reqs, ok \in BOOLEAN : RegenerateToken(r, "h1", ok)
    \/ \E r \in Reqs, ok \in BOOLEAN : RegenRemove(r, ok)
    \/ \E r \in Reqs, ok \in BOOLEAN : RegenSet(r, ok)
    \/ \E r \in Reqs : OnResponse(r)

\* Concurrent requests whose handlers take one Session guard each, over a
\* store whose calls may fail, within one tick of the clock.
SpecOps == Init /\ [][NextOps]_vars

InitMemory ==
    /\ map = EmptyMap
    /\ lastOp = [k \in Tokens |-> NoOp]
    /\ InitRest
    /\ builder = DefaultBuilder
    /\ keyed = Unkeyed

NextMemory ==
    \/ \E k \in Keys, v \in Values, d \in TTLs : MemorySet(k, v, d)
    \/ \E k \in Keys : MemoryGet(k)
    \/ \E k \in Keys, d \in TTLs : MemoryTouch(k, d)
    \/ \E k \in Keys : MemoryRemove(k)
    \/ Tick

\* A MemoryStore called directly with any keys, values and time-to-live
\* values, the clock running.
SpecMemory == InitMemory /\ [][NextMemory]_vars

NextThreads ==
    \/ \E t \in Threads, k \in Keys : Call(t, "get", k, NoValue, 0)
    \/ \E t \in Threads, k \in Keys, v \in Values, d \in TTLs :
            Call(t, "set", k, v, d)
    \/ \E t \in Threads, k \in Keys, d \in TTLs : Call(t, "touch", k, NoValue, d)
    \/ \E t \in Threads, k \in Keys : Call(t, "remove", k, NoValue, 0)
    \/ \E t \in Threads : AcquireMap(t)
    \/ \E t \in Threads : Lookup(t)
    \/ \E t \in Threads : LockFrame(t)
    \/ \E t \in Threads : ReadFrame(t)
    \/ \E t \in Threads : WriteFrame(t)
    \/ \E t \in Threads : Insert(t)
    \/ \E t \in Threads : Delete(t)
    \/ Tick

\* Threads calling one MemoryStore at the same time, each call followed
\* lock by lock, the clock running; map is the store as the calls would
\* leave it if each took effect at once, at the step where it reads or
\* writes under its locks.
SpecThreads == InitMemory /\ [][NextThreads]_vars

NextRedis ==
    \/ \E k \in Keys, v \in Values, d \in TTLs, ok \in BOOLEAN : RedisSet(k, v, d, ok)
    \/ \E k \in Keys, ok \in BOOLEAN : RedisGet(k, ok)
    \/ \E k \in Keys, d \in TTLs, ok \in BOOLEAN : RedisTouch(k, d, ok)
    \/ \E k \in Keys, ok \in BOOLEAN : RedisRemove(k, ok)
    \/ \E k \in Keys : ForeignWrite(k)
    \/ Tick

\* A RedisStore called directly, its connection working or not, on a redis
\* server that other clients write to as well, the clock running.
SpecRedis == InitMemory /\ [][NextRedis]_vars

NextRace ==
    \/ \E r \in Reqs, c \in Tokens \cup {NoToken} : Arrive(r, c)
    \/ \E r \in Reqs, h \in Handles : FromRequest(r, h)
    \/ \E r \in Reqs, h \in Handles : RegenerateTokenCalled(r, h)
    \/ \E r \in Reqs, ok \in BOOLEAN : RegenGet(r, ok)
    \/ \E r \in Reqs, ok \in BOOLEAN : RegenRemove(r, ok)
    \/ \E r \in Reqs, ok \in BOOLEAN : RegenSet(r, ok)
    \/ \E r \in Reqs, h \in Handles, ok \in BOOLEAN : SessionRemove(r, h, ok)
    \/ \E r \in Reqs : OnResponse(r)
    \/ Tick

\* Concurrent requests that regenerate their token or remove their session,
\* regenerate_token followed from its call on, over an established session,
\* the store's calls succeeding or failing, the clock running.
SpecRace == InitRegen /\ [][NextRace]_vars

NextCalls ==
    \/ \E t \in Threads, k \in Keys : Call(t, "get", k, NoValue, 0)
    \/ \E t \in Threads, k \in Keys : Call(t, "set", k, InitValue, Duration)
    \/ \E t \in Threads, k \in Keys : Call(t, "touch", k, NoValue, Duration)
    \/ \E t \in Threads, k \in Keys : Call(t, "remove", k, NoValue, 0)
    \/ \E t \in Threads : AcquireMap(t)
    \/ \E t \in Threads : Lookup(t)
    \/ \E t \in Threads : LockFrame(t)
    \/ \E t \in Threads : ReadFrame(t)
    \/ \E t \in Threads : WriteFrame(t)
    \/ \E t \in Threads : Insert(t)
    \/ \E t \in Threads : Delete(t)

\* A thread that is in a call goes on: the runtime polls every task that can
\* make progress, the RwLock of the HashMap serves its waiters first in,
\* first out (queue), and the Mutex of a frame is fair as well, so that a
\* thread for which it is free again and again gets it.
FairCalls ==
    \A t \in Threads :
        /\ WF_vars(AcquireMap(t))
        /\ WF_vars(Lookup(t))
        /\ SF_vars(LockFrame(t))
        /\ WF_vars(ReadFrame(t))
        /\ WF_vars(WriteFrame(t))
        /\ WF_vars(Insert(t))
        /\ WF_vars(Delete(t))

\* Threads calling one MemoryStore at the same time, lock by lock, with one
\* value and one time-to-live and the clock standing still, under fair
\* scheduling of the tasks and of the locks; threads need not call.
SpecCalls == InitMemory /\ [][NextCalls]_vars /\ FairCalls

\* Strings are sequences of characters; a prefix or postfix has up to MaxAffix
\* of them, a session id (generated, or copied from the cookie of a request)
\* from one to MaxIdLen.
Chars == {"a", "b"}
RECURSIVE StringsOfLen(_)
StringsOfLen(n) ==
    IF n = 0 THEN {<<>>}
    ELSE {Append(x, c) : x \in StringsOfLen(n - 1), c \in Chars}
Affixes == UNION {StringsOfLen(n) : n \in 0..MaxAffix}
Ids == UNION {StringsOfLen(n) : n \in 1..MaxIdLen}
Configs == [prefix : Affixes, postfix : Affixes]

\* Store s makes call o with session id id: get, set, touch and remove all
\* start by self.to_key(id) and send their command for that key.
ToKey(s, o, id) ==
    /\ keyed' = [keyed EXCEPT !.last[s] =
            [op |-> o, id |-> id,
             key |-> to_key(keyed.cfg[s].prefix, keyed.cfg[s].postfix, id)]]
    /\ UNCHANGED <<map, now, pc, cookie, cache, new_token, handle, regen, ret,
                   response, lastOp, directVars, cookieVars>>

\* Two stores that are configured differently.
InitKeys ==
    /\ map = EmptyMap
    /\ lastOp = [k \in Tokens |-> NoOp]
    /\ InitRest
    /\ builder = DefaultBuilder
    /\ keyed \in {[cfg |-> c, last |-> [s \in Stores |-> NoKey]] :
                    c \in {x \in [Stores -> Configs] : x["A"] /= x["B"]}}

NextKeys ==
    \E s \in Stores, o \in {"get", "set", "touch", "remove"}, id \in Ids :
        ToKey(s, o, id)

SpecKeys == InitKeys /\ [][NextKeys]_vars

\* Requests against a SessionStore whose cookie_builder is any of Builders.
InitCookie ==
    /\ map = EstablishedMap
    /\ lastOp = [k \in Tokens |->
                   IF k = InitToken THEN "set" ELSE NoOp]
    /\ InitRest
    /\ builder \in Builders
    /\ keyed = Unkeyed

SpecCookie == InitCookie /\ [][NextCommit]_vars

\* ----------------------------------------------------------------- claims

\* Store::get(k) issued now returns a value.
Live(m, k, t) == StoreGet(m, k, t) /= NoValue

RegenOk(r) == Returned(r, "regenerate_token", TRUE, NoValue)
RegenErr(r) == Returned(r, "regenerate_token", FALSE, NoValue)

\* The step on which regenerate_token of request r returns an error from its
\* get, from its remove, from its set.
FailsAtGet(r) ==
    pc[r] = "handling" /\ pc'[r] = "handling" /\ ret' = RegenErr(r) /\ ret' /= ret
FailsAtRemove(r) ==
    pc[r] = "regen_remove" /\ pc'[r] = "handling" /\ ~ret'.ok
FailsAtSet(r) ==
    pc[r] = "regen_set" /\ pc'[r] = "handling" /\ ~ret'.ok

\* What the fairing has adjoined, given the pending slot.
Committed(r) ==
    response[r] = IF pc[r] = "done" /\ new_token[r] /= NoToken
                    THEN <<new_token[r]>> ELSE <<>>

\* C1: with no concurrent request, a regenerate_token of a request that
\* presented token A reads the value stored unexpired under A, and when it
\* returns Ok after carrying a value v the handle and the pending slot hold
\* a new token B /= A, Store::get(A) is absent and Store::get(B) is v.
C1_RegenerationMovesSession ==
    [][\A r \in Reqs :
        /\ (pc[r] = "handling" /\ pc'[r] = "regen_remove") =>
                /\ cookie[r] /= NoToken
                /\ regen'[r].session_opt = StoreGet(map, cookie[r], now)
        /\ (pc[r] = "regen_remove" /\ regen[r].session_opt /= NoValue
                /\ pc'[r] = "handling") => ret' = RegenErr(r)
        /\ (pc[r] = "regen_set" /\ pc'[r] = "handling" /\ ret'.ok) =>
                /\ ret' = RegenOk(r)
                /\ new_token'[r] \notin {NoToken, cookie[r]}
                /\ handle'[r][regen[r].h] = new_token'[r]
                /\ StoreGet(map', cookie[r], now') = NoValue
                /\ regen[r].session_opt /= NoValue
                /\ StoreGet(map', new_token'[r], now') = regen[r].session_opt
    ]_vars

C1_Witness ==
    \E r \in Reqs :
        /\ ret = RegenOk(r) /\ pc[r] = "handling"
        /\ cookie[r] = InitToken
        /\ new_token[r] \notin {NoToken, InitToken}
        /\ lastOp[new_token[r]] = "regen"
        /\ StoreGet(map, new_token[r], now) = InitValue
        /\ StoreGet(map, InitToken, now) = NoValue

\* C2: once regenerate_token has filled the pending slot of a request that
\* presented a cookie, every Session handle of that request holds the new
\* token (none is left on the retired one).
C2_HandlesFollowRegeneration ==
    \A r \in Reqs :
        (cookie[r] /= NoToken /\ new_token[r] /= NoToken) =>
            \A h \in Handles : handle[r][h] \in {NoToken, new_token[r]}

\* C3 as stated: whenever regenerate_token has returned an error, the store
\* holds no readable entry under the old token.
C3_FailureInvalidatesOldToken ==
    \A r \in Reqs :
        (ret = RegenErr(r) /\ pc[r] = "handling") =>
            StoreGet(map, cookie[r], now) = NoValue

\* C3 as amended: when regenerate_token fails at the set under the new token,
\* the old entry has been removed, so an entry readable under the old token
\* was written by a Session::set since; when it fails at the get or at the
\* remove, the store is left as it was.
C3_FailureAtSetInvalidatesOldToken ==
    [][\A r \in Reqs :
        /\ FailsAtSet(r) =>
                (Live(map', cookie[r], now') => lastOp'[cookie[r]] = "set")
        /\ (FailsAtGet(r) \/ FailsAtRemove(r)) => map' = map
    ]_vars

C3_Witness ==
    \E r \in Reqs :
        /\ ret = RegenErr(r) /\ pc[r] = "handling"
        /\ cookie[r] = InitToken
        /\ new_token[r] /= NoToken
        /\ lastOp[InitToken] = "remove"
        /\ InitToken \notin DOMAIN map

\* C4 as stated: in a request that presented a cookie, once a
\* regenerate_token call has returned the token has changed (on the first
\* call), and the response carries exactly one cookie, with the new token.
C4_FirstCallChangesToken ==
    \A r \in Reqs :
        (cookie[r] /= NoToken /\ ret.req = r /\ ret.op = "regenerate_token") =>
            /\ new_token[r] \notin {NoToken, cookie[r]}
            /\ pc[r] = "done" => response[r] = <<new_token[r]>>

\* C4 as amended: in a request that presented a cookie the token changes at
\* most once; once a regenerate_token call has filled the pending slot, the
\* slot never changes again, no further call starts a regeneration, every
\* further call returns Ok and leaves the store and the handles alone, and
\* the response carries exactly one cookie, with the token of the slot.
C4_RegenerationIdempotent ==
    /\ [](\A r \in Reqs : cookie[r] /= NoToken =>
            /\ \A h \in Handles : handle[r][h] \in {NoToken, cookie[r], new_token[r]}
            /\ Committed(r))
    /\ [][\A r \in Reqs : (cookie[r] /= NoToken /\ new_token[r] /= NoToken) =>
            /\ new_token'[r] = new_token[r]
            /\ pc'[r] /= "regen_remove"
            /\ (pc[r] = "handling" /\ ret' /= ret /\ ret'.req = r
                    /\ ret'.op = "regenerate_token") =>
                    /\ ret' = RegenOk(r)
                    /\ map' = map /\ lastOp' = lastOp /\ handle' = handle
       ]_vars

C4_Witness ==
    \E r \in Reqs :
        /\ cookie[r] /= NoToken /\ pc[r] = "done"
        /\ ret = RegenOk(r)
        /\ new_token[r] \notin {NoToken, cookie[r]}
        /\ response[r] = <<new_token[r]>>
        /\ new_token[r] \notin DOMAIN map /\ lastOp[new_token[r]] = "none"
        /\ lastOp[cookie[r]] = "remove" /\ cookie[r] = InitToken

\* C5: in a request that presented the cookie the pending slot is filled by
\* a regenerate_token step only; as long as it is empty, whatever the
\* handler calls, the response carries no session cookie.
C5_NoCookieWithoutRegeneration ==
    /\ [](\A r \in Reqs : (cookie[r] /= NoToken /\ new_token[r] = NoToken) =>
            response[r] = <<>>)
    /\ [][\A r \in Reqs :
            (cookie[r] /= NoToken /\ new_token[r] = NoToken /\ new_token'[r] /= NoToken)
                => pc[r] = "regen_remove"
       ]_vars

C5_Witness ==
    \E r \in Reqs :
        /\ pc[r] = "done" /\ cookie[r] /= NoToken
        /\ ret = Returned(r, "remove", TRUE, NoValue)
        /\ lastOp[cookie[r]] = "remove"
        /\ new_token[r] = NoToken /\ response[r] = <<>>

\* C6: a request that arrived without the cookie resolves its token once:
\* the memoized token, the pending slot and every handle agree, a set(v) of
\* its handler writes v under that token, and its response carries exactly
\* one cookie, with that token.  With one request at a time, a later request
\* that presents this cookie and calls get receives the value stored under
\* it, as long as the entry is neither removed nor expired.
C6_LazyMintMemoized ==
    /\ \A r \in Reqs : (cookie[r] = NoToken /\ cache[r] /= NoToken) =>
            /\ new_token[r] = cache[r]
            /\ \A h \in Handles : handle[r][h] \in {NoToken, cache[r]}
            /\ Committed(r)
    /\ \A r \in Reqs, v \in Values :
            (cookie[r] = NoToken /\ pc[r] = "handling"
                /\ ret = Returned(r, "set", TRUE, v)) =>
                    /\ cache[r] \in DOMAIN map
                    /\ map[cache[r]].value = v
    /\ \A r1 \in Reqs, r2 \in Reqs :
            (/\ cookie[r1] = NoToken /\ pc[r1] = "done"
             /\ cookie[r2] /= NoToken /\ response[r1] = <<cookie[r2]>>
             /\ pc[r2] = "handling" /\ new_token[r2] = NoToken
             /\ ret.req = r2 /\ ret.op = "get" /\ ret.ok
             /\ cookie[r2] \in DOMAIN map
             /\ Unexpired(map[cookie[r2]], now)) =>
                    ret.val = map[cookie[r2]].value

C6_Witness ==
    \E r1 \in Reqs, r2 \in Reqs :
        /\ cookie[r1] = NoToken /\ pc[r1] = "done"
        /\ cookie[r2] /= NoToken /\ response[r1] = <<cookie[r2]>>
        /\ pc[r2] = "handling" /\ new_token[r2] = NoToken
        /\ handle[r2]["h2"] = NoToken
        /\ ret = Returned(r2, "get", TRUE, "w")
        /\ lastOp[cookie[r2]] = "set"
        /\ now > 0

\* C7: among concurrent requests that present the same token and only
\* regenerate it, over a store whose calls succeed, once a regeneration has
\* returned Ok the presented token has no entry, in that state and in every
\* later one.
C7_OldTokenStaysDead ==
    \A r \in Reqs :
        (cookie[r] /= NoToken /\ new_token[r] /= NoToken
            /\ pc[r] \in {"handling", "done"}) =>
                /\ cookie[r] \notin DOMAIN map
                /\ StoreGet(map, cookie[r], now) = NoValue

C7_Witness ==
    \E r1 \in Reqs, r2 \in Reqs :
        /\ cookie[r1] = InitToken /\ cookie[r2] = InitToken
        /\ pc[r1] = "handling" /\ ret = RegenOk(r1)
        /\ new_token[r1] \in DOMAIN map
        /\ pc[r2] = "regen_set"
        /\ InitToken \notin DOMAIN map

\* C8 as stated: the store never holds a live entry under a presented token A
\* and a live entry under the token B that a regeneration of A produced
\* (stated for requests under way that hold one handle each, so that every
\* handle is on its request's current token).
C8_NeverBothLive ==
    \A r \in Reqs :
        (/\ cookie[r] /= NoToken /\ new_token[r] /= NoToken
         /\ \A q \in Reqs : pc[q] /= "done" /\ handle[q]["h2"] = NoToken) =>
            ~(Live(map, cookie[r], now) /\ Live(map, new_token[r], now))

\* C8 as amended: the store holds live entries under A and under B at once
\* only when a Session::set has written A's entry again after the
\* regeneration removed it.
C8_BothLiveOnlyAfterSet ==
    \A r \in Reqs :
        (cookie[r] /= NoToken /\ new_token[r] /= NoToken
            /\ Live(map, cookie[r], now) /\ Live(map, new_token[r], now)) =>
                lastOp[cookie[r]] = "set"

C8_Witness ==
    \E r \in Reqs, q \in Reqs :
        /\ q /= r /\ cookie[r] = InitToken /\ cookie[q] = InitToken
        /\ new_token[r] /= NoToken /\ lastOp[new_token[r]] = "regen"
        /\ Live(map, new_token[r], now) /\ ~Live(map, InitToken, now)
        /\ pc[q] = "handling" /\ handle[q]["h1"] = InitToken
        /\ ret = Returned(q, "touch", TRUE, NoValue)

\* C9: over an established session and a store whose calls succeed, with
\* requests that only regenerate, once no regeneration is under way and the
\* presented token has been regenerated, the value is readable under a newly
\* generated token (as long as nothing can have expired).
C9_ValueSurvivesRegenerations ==
    (/\ now <= Duration
     /\ \A r \in Reqs : pc[r] \notin {"regen_remove", "regen_set"}
     /\ \E r \in Reqs : cookie[r] = InitToken /\ new_token[r] /= NoToken) =>
        \E r \in Reqs :
            /\ cookie[r] /= NoToken /\ new_token[r] /= NoToken
            /\ StoreGet(map, new_token[r], now) = InitValue

C9_Witness ==
    \E r1 \in Reqs, r2 \in Reqs :
        /\ cookie[r1] = InitToken /\ cookie[r2] = InitToken
        /\ pc[r1] = "done" /\ pc[r2] = "done"
        /\ new_token[r1] /= NoToken /\ new_token[r2] /= NoToken
        /\ new_token[r1] /= new_token[r2]
        /\ now <= Duration
        /\ StoreGet(map, new_token[r1], now) = InitValue
        /\ new_token[r2] \notin DOMAIN map

\* C10 as stated: after regenerate_token has returned an error the pending
\* slot is empty and the response carries no cookie.
C10_FailureLeavesSlotEmpty ==
    \A r \in Reqs :
        ret = RegenErr(r) => (new_token[r] = NoToken /\ response[r] = <<>>)

\* C10 as amended: a regenerate_token that fails at its get or at its remove
\* leaves the pending slot empty; one that fails at its set has filled the
\* slot with the new token already; the response carries one cookie with the
\* token of the slot when the slot is filled, and none when it is empty.
C10_SlotFilledBeforeSet ==
    /\ [](\A r \in Reqs : Committed(r))
    /\ [][\A r \in Reqs :
            /\ (FailsAtGet(r) \/ FailsAtRemove(r)) => new_token'[r] = NoToken
            /\ FailsAtSet(r) =>
                    /\ new_token'[r] \notin {NoToken, cookie[r]}
                    /\ new_token'[r] = handle'[r][regen[r].h]
       ]_vars

C10_Witness ==
    \E r \in Reqs :
        /\ ret = RegenErr(r) /\ pc[r] = "done"
        /\ cookie[r] /= NoToken /\ new_token[r] /= NoToken
        /\ response[r] = <<new_token[r]>>

\* The handler of request r has returned its own error.
HandlerErr(r) == Returned(r, "handler", FALSE, NoValue)

\* C11: the cookie commit does not depend on the handler's outcome.  When a
\* request that presented a cookie has regenerated its token (the store
\* calls succeeding) and its handler then fails, on_response still adjoins
\* exactly one cookie, with the new token; the entry of the old token is
\* absent and a value the regeneration carried is stored under the new token.
C11_CommitAfterHandlerError ==
    [][\A r \in Reqs :
        (/\ pc[r] = "failed" /\ pc'[r] = "done"
         /\ cookie[r] /= NoToken /\ new_token[r] /= NoToken) =>
            /\ response'[r] = <<new_token[r]>>
            /\ new_token[r] /= cookie[r]
            /\ ~Live(map', cookie[r], now')
            /\ lastOp[new_token[r]] = "regen" =>
                    /\ new_token[r] \in DOMAIN map'
                    /\ map'[new_token[r]].value = InitValue]_vars

C11_Witness ==
    \E r \in Reqs :
        /\ pc[r] = "done" /\ ret = HandlerErr(r)
        /\ cookie[r] = InitToken
        /\ response[r] = <<new_token[r]>>
        /\ ~Live(map, cookie[r], now)
        /\ StoreGet(map, new_token[r], now) = InitValue

\* What RedisStore::get of key k returns at time t over a working connection
\* (DeserializeError where it does not return).
RedisValue(rs, k, t) ==
    LET val == CmdGet(rs, RedisKey(k), t) IN
    IF val.kind = "nil" THEN NoValue ELSE from_slice(val.bytes)

\* C12: set-then-get round trip.  For a Store implementation, every key k,
\* value v and time-to-live d > 0 (shorter than a second included), a
\* set(k, v, d) that reaches the backend succeeds and a get(k) made right
\* after it returns v, whatever k held before.  Stated here for the
\* RedisStore.
C12_SetThenGet ==
    [][\A k \in Keys :
        (written'[k] /= written[k] /\ written'[k].op = "set") =>
            /\ sret'.ok
            /\ RedisValue(redis', k, now') = written'[k].v]_vars

\* C19: in the RedisStore a get that finds a payload it cannot deserialize
\* returns SessionError to the caller: it neither reports an absent value
\* nor panics.
C19_CorruptPayloadIsError ==
    [][\A k \in Keys :
        (/\ sret' /= sret /\ sret'.op = "get" /\ sret'.key = k
         /\ RedisValue(redis, k, now) = DeserializeError) =>
            sret' = Called("get", k, FALSE, NoValue)]_vars

\* The deadline of the last set or touch of key k made on the Store.
Deadline(k) == written[k].at + written[k].d

\* C13: expiry.  After set(k, v, d) with no later set, touch or remove of
\* k, a get(k) returns absent once more than d has elapsed and returns v
\* before d has elapsed.
C13_Expiry ==
    \A k \in Keys :
        written[k].op = "set" =>
            /\ now > Deadline(k) => StoreGet(map, k, now) = NoValue
            /\ now < Deadline(k) => StoreGet(map, k, now) = written[k].v

C13_Witness ==
    \E k, j \in Keys :
        /\ written[k].op = "set" /\ now > Deadline(k)
        /\ k \in DOMAIN map /\ StoreGet(map, k, now) = NoValue
        /\ written[j].op = "set" /\ written[j].at < now /\ now < Deadline(j)
        /\ StoreGet(map, j, now) = written[j].v

\* C14: touch resets the deadline.  touch(k, d') made at time t on an entry
\* that has not expired sets its expiry to t + d' and leaves its value as it
\* is: get(k) returns the value before t + d', also when the earlier
\* deadline has passed, and absent after t + d'.
C14_TouchResetsDeadline ==
    \A k \in Keys :
        (written[k].op = "touch" /\ written[k].was >= written[k].at) =>
            /\ k \in DOMAIN map
            /\ map[k].expiry = Deadline(k)
            /\ map[k].value = written[k].v
            /\ now < Deadline(k) => StoreGet(map, k, now) = written[k].v
            /\ now > Deadline(k) => StoreGet(map, k, now) = NoValue

C14_Witness ==
    \E k, j \in Keys :
        /\ written[k].op = "touch" /\ written[k].was >= written[k].at
        /\ now > written[k].was /\ now < Deadline(k)
        /\ StoreGet(map, k, now) \in Values
        /\ written[j].op = "touch" /\ written[j].was >= written[j].at
        /\ now > Deadline(j) /\ StoreGet(map, j, now) = NoValue

\* C15: remove.  After remove(k), get(k) returns absent, whether the entry
\* was live, expired or missing, until the next set(k) (a touch does not
\* bring it back), and the remove leaves the entries under all other keys as
\* they are.
C15_RemoveMakesAbsent ==
    /\ [](\A k \in Keys :
            written[k].since = "remove" => StoreGet(map, k, now) = NoValue)
    /\ [][\A k \in Keys :
            (written'[k] /= written[k] /\ written'[k].op = "remove") =>
                /\ DOMAIN map' = (DOMAIN map) \ {k}
                /\ \A x \in DOMAIN map' : map'[x] = map[x]]_vars

C15_Witness ==
    \E k, j \in Keys :
        /\ written[k].op = "remove" /\ written[k].was >= written[k].at
        /\ StoreGet(map, k, now) = NoValue
        /\ written[j].op = "remove" /\ written[j].was >= 0
        /\ written[j].was < written[j].at
        /\ StoreGet(map, j, now) = NoValue

\* C16: an entry whose expiry has passed is absent for every store
\* operation: once get(k) returns absent because the entry has expired it
\* returns absent in every later state until a new set(k); a touch made
\* after the expiry does not make the entry readable again.
C16_ExpiredStaysAbsent ==
    [][\A k \in Keys :
        (/\ k \in DOMAIN map /\ ~Unexpired(map[k], now)
         /\ ~(written'[k] /= written[k] /\ written'[k].op = "set")) =>
            StoreGet(map', k, now') = NoValue]_vars

\* C17: touch(k, d) and remove(k) on a key that has no entry return success
\* and leave the whole store as it is.
C17_AbsentKeyNoOp ==
    [][\A k \in Keys :
        (/\ k \notin DOMAIN map
         /\ written'[k] /= written[k]
         /\ written'[k].op \in {"touch", "remove"}) =>
            /\ map' = map
            /\ sret' = Called(written'[k].op, k, TRUE, NoValue)]_vars

C17_Witness ==
    \E k, j \in Keys :
        /\ written[k].op = "touch" /\ written[k].was = -1
        /\ k \notin DOMAIN map
        /\ written[j].op = "remove" /\ written[j].was = -1
        /\ j \notin DOMAIN map
        /\ sret.ok /\ sret.op \in {"touch", "remove"}

\* The per-request state is left as it is.
RequestStateKept ==
    /\ cache' = cache /\ new_token' = new_token /\ handle' = handle
    /\ pc' = pc /\ response' = response

\* C20: every Session operation (get, set, touch, remove) issues its store
\* call once, on the handle's current token (set and touch with the session
\* duration); when the call fails it returns the error and the store is as
\* before (no second try); whether it succeeds or fails, the current token
\* and the pending slot of the request are unchanged.
C20_SessionOpsDelegate ==
    [][\A r \in Reqs, h \in Handles, ok \in BOOLEAN :
        LET k == handle[r][h] IN
        /\ SessionGet(r, h, ok) =>
            /\ map' = map /\ RequestStateKept
            /\ ret' = Returned(r, "get", ok,
                                IF ok THEN StoreGet(map, k, now) ELSE NoValue)
        /\ \A v \in Values : SessionSet(r, h, v, ok) =>
            /\ map' = IF ok THEN StoreSet(map, k, v, Duration, now) ELSE map
            /\ RequestStateKept
            /\ ret' = Returned(r, "set", ok, v)
        /\ SessionTouch(r, h, ok) =>
            /\ map' = IF ok THEN StoreTouch(map, k, Duration, now) ELSE map
            /\ RequestStateKept
            /\ ret' = Returned(r, "touch", ok, NoValue)
        /\ SessionRemove(r, h, ok) =>
            /\ map' = IF ok THEN StoreRemove(map, k) ELSE map
            /\ RequestStateKept
            /\ ret' = Returned(r, "remove", ok, NoValue)]_vars

C20_Witness ==
    \E r \in Reqs :
        /\ pc[r] = "handling" /\ ret = Returned(r, "set", FALSE, "w")
        /\ cookie[r] = InitToken /\ handle[r]["h1"] = InitToken
        /\ new_token[r] = NoToken
        /\ StoreGet(map, InitToken, now) = InitValue

\* C18: MemoryStore calls made at the same time by different threads take
\* effect one at a time: the HashMap always holds what the calls leave when
\* each is applied at once, in the order of the steps at which they read or
\* write under their locks; a get returns what the store holds at that step
\* (never a value that was not set), and a touch writes the frame that is
\* under its key at that step (never one that a set or a remove has replaced
\* or deleted meanwhile).
C18_CallsAtomic ==
    /\ [](View(fid, frames) = map)
    /\ [][\A t \in Threads :
            (th[t].pc /= "idle" /\ th'[t].pc = "idle") =>
                /\ th[t].op = "get" =>
                        th'[t].res = StoreGet(map, th[t].k, now)
                /\ (th[t].op = "touch" /\ th[t].pc = "have_frame") =>
                        /\ th[t].k \in DOMAIN fid
                        /\ fid[th[t].k] = th[t].f]_vars

C18_Witness ==
    \E t, u \in Threads :
        /\ th[t].pc = "have_frame" /\ th[t].op = "touch"
        /\ th[u].pc = "want_map" /\ th[u].op = "set" /\ th[u].k = th[t].k
        /\ th[u].v /= map[th[t].k].value
        /\ now > 0

\* ------------------------------------------------------------------- C21

\* C21 as the specification has it: every cookie that on_response emits has
\* the configured name, the pending token as its value, and a Max-Age that is
\* the session's duration.
C21_CookieLifetimeIsDuration ==
    \A r \in Reqs : \A i \in 1..Len(sent[r]) :
        /\ sent[r][i].name = CookieName
        /\ sent[r][i].value = response[r][i]
        /\ sent[r][i].max_age = Duration

\* C21, as the code has it: every cookie that on_response emits has the
\* configured name and the pending token as its value, and its Max-Age is the
\* one of the configured cookie_builder, absent when the builder has none,
\* whatever the session's duration is.
C21_CookieLifetimeIsBuilders ==
    \A r \in Reqs :
        /\ Len(sent[r]) = Len(response[r])
        /\ \A i \in 1..Len(sent[r]) :
            /\ sent[r][i].name = CookieName
            /\ sent[r][i].value = response[r][i]
            /\ sent[r][i].value = new_token[r]
            /\ sent[r][i].max_age = builder.max_age

\* A request has ended with one cookie emitted for its pending token by a
\* store whose builder has no Max-Age, or has one that is not the duration.
C21_Witness ==
    \E r \in Reqs :
        /\ pc[r] = "done"
        /\ Len(sent[r]) = 1
        /\ sent[r][1].value = new_token[r]
        /\ sent[r][1].max_age = builder.max_age
        /\ builder.max_age /= Duration

\* ------------------------------------------------------------------- C22

\* C22: of two RedisStores on one server that are configured with different
\* prefixes or postfixes, no session id of the one, generated or copied from a
\* cookie, has the key of a session id of the other; within one store
\* different ids have different keys, and the key of an id is
\* prefix + id + postfix whichever call is made.
C22_NoKeyCollision ==
    /\ (keyed.last["A"].op /= "none" /\ keyed.last["B"].op /= "none")
            => keyed.last["A"].key /= keyed.last["B"].key
    /\ \A s \in Stores :
        /\ keyed.last[s].op /= "none" =>
                keyed.last[s].key = keyed.cfg[s].prefix \o keyed.last[s].id
                                        \o keyed.cfg[s].postfix
        /\ \A i, j \in Ids :
                i /= j => to_key(keyed.cfg[s].prefix, keyed.cfg[s].postfix, i)
                          /= to_key(keyed.cfg[s].prefix, keyed.cfg[s].postfix, j)

\* ------------------------------------------------------------------- C23

\* Request r's call of regenerate_token returns Ok in this step: at the filled
\* slot, after the remove when the get had read nothing, or after the set.
ReturnsRegenOk(r) ==
    /\ ret' = RegenOk(r)
    /\ pc'[r] = "handling"
    /\ \/ pc[r] \in {"regen_remove", "regen_set"}
       \/ pc[r] = "handling" /\ <<ret, held[r]>> /= <<ret', held'[r]>>

\* C23 as stated: when regenerate_token returns Ok in a request whose token
\* held an unexpired value when the call started, that value is readable
\* under the request's new token at the return, whatever other requests with
\* the same token do meanwhile (as long as nothing can have expired).
C23_ValueAtCallMoves ==
    [][\A r \in Reqs :
        (ReturnsRegenOk(r) /\ held'[r] /= NoValue /\ now' <= Duration) =>
            StoreGet(map', new_token'[r], now') = held'[r]]_vars

\* C23, as the code has it: the value that moves is the one the call's get
\* reads, which is what the store holds under the old token at the get, not
\* at the call. When regenerate_token returns Ok after its set, what its get
\* read is readable under the request's new token; when its get read nothing,
\* because another request removed the old entry or the entry expired after
\* the call started, the call returns Ok with nothing under the new token.
C23_ValueAtGetMoves ==
    [][\A r \in Reqs :
        /\ (pc[r] = "regen_get" /\ pc'[r] = "regen_remove") =>
            /\ regen'[r].session_opt = StoreGet(map, handle[r][regen[r].h], now)
            /\ regen'[r].session_opt \in {held[r], NoValue}
        /\ (ReturnsRegenOk(r) /\ pc[r] = "regen_set") =>
            /\ regen[r].session_opt /= NoValue
            /\ StoreGet(map', new_token'[r], now') = regen[r].session_opt
        /\ (ReturnsRegenOk(r) /\ pc[r] = "regen_remove") =>
            /\ regen[r].session_opt = NoValue
            /\ new_token'[r] \notin DOMAIN map'
        /\ (ReturnsRegenOk(r) /\ pc[r] = "handling") =>
            /\ map' = map
            /\ new_token'[r] = new_token[r]]_vars

\* Two requests presented the established token and called regenerate_token
\* while the token held the value; the first moved it to its new token, the
\* other's get came after the first's remove and its call has just returned
\* Ok with nothing under its new token.
C23_Witness ==
    \E r1 \in Reqs, r2 \in Reqs :
        /\ cookie[r1] = InitToken /\ cookie[r2] = InitToken
        /\ held[r1] = InitValue /\ held[r2] = InitValue
        /\ new_token[r1] /= NoToken /\ new_token[r2] /= NoToken
        /\ StoreGet(map, new_token[r1], now) = InitValue
        /\ ret = RegenOk(r2) /\ pc[r2] = "handling"
        /\ new_token[r2] \notin DOMAIN map

\* ------------------------------------------------------------------- C24

\* C24: in a request that arrived without the session cookie, the token is
\* minted with the pending slot filled, and regenerate_token does nothing: it
\* returns Ok, starts no store call, leaves the store, the token and the slot
\* as they are, so that what the handler has set stays readable under the
\* minted token; the set of a regeneration is never made under that token by
\* the request, and the one cookie emitted carries the minted token.
C24_NoCookieRegenerationIsNoOp ==
    /\ [](\A r \in Reqs : (cookie[r] = NoToken /\ cache[r] /= NoToken) =>
            /\ new_token[r] = cache[r]
            /\ pc[r] \notin {"regen_remove", "regen_set"}
            /\ \A h \in Handles : handle[r][h] \in {NoToken, cache[r]}
            /\ lastOp[cache[r]] /= "regen"
            /\ pc[r] = "done" =>
                    /\ response[r] = <<cache[r]>>
                    /\ Len(sent[r]) = 1 /\ sent[r][1].value = cache[r])
    /\ [][\A r \in Reqs, h \in Handles, ok \in BOOLEAN :
            (cookie[r] = NoToken /\ RegenerateToken(r, h, ok)) =>
                /\ ret' = RegenOk(r)
                /\ UNCHANGED <<map, pc, regen, cache, new_token, handle,
                               lastOp, response>>
                /\ StoreGet(map', handle'[r][h], now')
                        = StoreGet(map, handle[r][h], now)]_vars

\* A request without cookie has set a value, called regenerate_token, which
\* was the last call to return, and ended: the value is readable under the
\* minted token, which the one cookie emitted carries.
C24_Witness ==
    \E r \in Reqs :
        /\ cookie[r] = NoToken /\ pc[r] = "done"
        /\ ret = RegenOk(r)
        /\ lastOp[cache[r]] = "set"
        /\ StoreGet(map, cache[r], now) \in Values
        /\ response[r] = <<cache[r]>>

\* ------------------------------------------------------------------- C25

\* Thread t can take its next step: it holds what it needs, or the lock it
\* waits for can be granted.
CanStep(t) ==
    \/ th[t].pc = "want_map" /\ th[t].op \in {"get", "touch"} /\ CanRead(t)
    \/ th[t].pc = "want_map" /\ th[t].op \in {"set", "remove"} /\ CanWrite(t)
    \/ th[t].pc = "have_map"
    \/ th[t].pc = "want_frame" /\ CanLockFrame(t)
    \/ th[t].pc = "have_frame"

\* C25: the locks of a MemoryStore are taken in one order, the RwLock of the
\* HashMap and then the Mutex of an entry: a thread asks for or holds an
\* entry's Mutex only in get and touch and only while it holds the read lock,
\* set and remove never refer to an entry; so whenever threads are in calls
\* one of them can take a step (no deadlock), and under fair scheduling every
\* call of get, set, touch or remove returns, whatever the other threads do.
C25_CallsTerminate ==
    /\ [](\A t \in Threads :
            /\ th[t].pc \in {"want_frame", "have_frame"} =>
                    th[t].op \in {"get", "touch"} /\ t \in Readers
            /\ th[t].op \in {"set", "remove"} =>
                    th[t].f = 0 /\ th[t].pc \in {"want_map", "have_map"}
            /\ th[t].pc = "want_map" <=> \E i \in 1..Len(queue) : queue[i] = t)
    /\ []((\E t \in Threads : th[t].pc /= "idle") =>
                \E t \in Threads : CanStep(t))
    /\ \A t \in Threads : (th[t].pc /= "idle") ~> (th[t].pc = "idle")

\* One thread holds the Mutex of an entry in a touch, another waits for the
\* same Mutex in a get.
C25_Witness ==
    \E t, u \in Threads :
        /\ th[t].pc = "have_frame" /\ th[t].op = "touch"
        /\ th[u].pc = "want_frame" /\ th[u].op = "get"
        /\ th[u].f = th[t].f

====
